---- MODULE Spec2Model ----
(***************************************************************************)
(* Model of src/main.py: the Jira -> Todoist one-way sync.                 *)
(*                                                                         *)
(*   get_green_resolution_statuses  (lines 30-45)  status catalog read     *)
(*   get_open_jira_tickets          (lines 47-81)  JQL search read         *)
(*   sync_to_todoist                (lines 83-208) reconcile and apply     *)
(*   run_service                    (lines 210-223) the endless loop       *)
(*                                                                         *)
(* Strings are sequences of one-character strings, so that                 *)
(* content.split(":")[0] and the f-string "<key>: <summary>" are computed  *)
(* and not assumed to be inverse to each other.                            *)
(***************************************************************************)
EXTENDS Integers, Sequences, FiniteSets, TLC

VARIABLES
    jira,              \* tracker: sequence of issues assigned to the user
    projects,          \* to-do service: sequence of projects [id, name]
    tasks,             \* to-do service: sequence of active tasks (listing order)
    closed,            \* to-do service: ids of tasks marked done
    deleted,           \* to-do service: ids of tasks permanently removed
    nextId,            \* to-do service: next task id it hands out
    pc,                \* position of run_service / sync_to_todoist
    green,             \* get_open_jira_tickets: green_statuses (line 49)
    jira_tickets,      \* the ticket list handed to sync_to_todoist
    jira_project,      \* sync_to_todoist: jira_project.id (0: not bound)
    existing_tasks,    \* sync_to_todoist: the task listing of line 103
    tasks_to_update,   \* line 110
    tasks_to_add,      \* line 111
    tasks_to_complete, \* line 112
    tasks_to_delete,   \* line 113
    reqs,              \* coroutines handed to asyncio.gather: [cat, i, st]
    nStatus,           \* status-catalog requests issued in the current pass
    errs,              \* remote calls that failed: [pass, kind]
    pass,              \* number of the call of sync_to_todoist (direct calls)
    prev_tasks,        \* the task listing of the caller's previous call
    changes            \* tracker edits made by its users so far

vars == <<jira, projects, tasks, closed, deleted, nextId, pc, green,
          jira_tickets, jira_project, existing_tasks, tasks_to_update,
          tasks_to_add, tasks_to_complete, tasks_to_delete, reqs, nStatus,
          errs, pass, prev_tasks, changes>>

----------------------------------------------------------------------------
(* Bounds of the model.                                                    *)

MaxTasks == 2      \* tasks in the project before the first pass
MaxId == 6         \* task ids the to-do service can hand out
MaxChanges == 1    \* tracker edits by its users

----------------------------------------------------------------------------
(* Strings.                                                                *)

None == "None"

KeyA == <<"A">>
KeyB == <<"B">>
Keys == {KeyA, KeyB}

RECURSIVE Join(_)
Join(ss) == IF ss = <<>> THEN <<>> ELSE Head(ss) \o Join(Tail(ss))

\* Index of the first ":" of s, or Len(s) + 1 when s holds none.
RECURSIVE FirstColon(_, _)
FirstColon(s, i) ==
    IF i > Len(s) THEN i
    ELSE IF s[i] = ":" THEN i
    ELSE FirstColon(s, i + 1)

\* content.split(":")[0] (line 104): the text before the first ":", the
\* whole text when there is none; nothing is trimmed.
SplitKey(content) == SubSeq(content, 1, FirstColon(content, 1) - 1)

JIRA_SERVER_URL == <<"u">>
PROJECT_NAME == "Jira Tickets"

\* Faulty variant of line 129: the key is left out of the content.
TaskContentNoKey(ticket) == ticket.summary

\* f"{ticket['key']}: {ticket['summary']}" (line 129)
TaskContent(ticket) == Join(<<ticket.key, <<":", " ">>, ticket.summary>>)

\* f"{JIRA_SERVER_URL}/browse/{ticket['key']}" (line 132)
TaskDescription(ticket) == Join(<<JIRA_SERVER_URL, <<"/">>, ticket.key>>)

\* Faulty variant of lines 134-140: Major is ranked like Minor.
PriorityMappingMajorLow(p) ==
    CASE p = "Blocker" -> 1
      [] p = "Critical" -> 1
      [] p = "Major" -> 3
      [] p = "Minor" -> 3
      [] p = "Trivial" -> 4
      [] OTHER -> 4

\* lines 131-143: the priority of the to-do task
PriorityMapping(p) ==
    CASE p = "Blocker" -> 1
      [] p = "Critical" -> 1
      [] p = "Major" -> 2
      [] p = "Minor" -> 3
      [] p = "Trivial" -> 4
      [] OTHER -> 4

TaskPriority(ticket) ==
    IF ticket.priority # None THEN PriorityMapping(ticket.priority) ELSE 4

BlockedOrCancelled == {"Blocked", "Cancelled"}

----------------------------------------------------------------------------
(* The reconciliation of lines 104-170, as functions of the ticket list    *)
(* and of the task listing.                                                *)

\* existing_task_map (line 104) is a dict built in listing order: a later
\* task with the same prefix replaces the earlier one, and the key keeps the
\* place of its first occurrence in the iteration order.
RECURSIVE MapKeys(_)
MapKeys(ts) ==
    IF ts = <<>> THEN <<>>
    ELSE LET front == MapKeys(SubSeq(ts, 1, Len(ts) - 1))
             k == SplitKey(ts[Len(ts)].content)
         IN IF \E i \in DOMAIN front : front[i] = k THEN front
            ELSE Append(front, k)

InMap(ts, k) == \E i \in DOMAIN ts : SplitKey(ts[i].content) = k

\* Faulty variant of line 104: the first task of a prefix is kept.
MapTaskFirst(ts, k) ==
    LET first == CHOOSE i \in DOMAIN ts :
                    /\ SplitKey(ts[i].content) = k
                    /\ \A j \in DOMAIN ts : SplitKey(ts[j].content) = k => i <= j
    IN ts[first]


MapTask(ts, k) ==
    LET last == CHOOSE i \in DOMAIN ts :
                    /\ SplitKey(ts[i].content) = k
                    /\ \A j \in DOMAIN ts : SplitKey(ts[j].content) = k => j <= i
    IN ts[last]

\* jira_ticket_keys (line 115)
JiraTicketKeys(tickets) == {tickets[i].key : i \in DOMAIN tickets}

\* Faulty variant of lines 117-119: Cancelled is forgotten.
BlockedKeysOnly(tickets) ==
    {tickets[i].key : i \in {j \in DOMAIN tickets :
                                tickets[j].status = "Blocked"}}

\* blocked_or_cancelled_ticket_keys (lines 117-119)
BlockedOrCancelledKeys(tickets) ==
    {tickets[i].key : i \in {j \in DOMAIN tickets :
                                tickets[j].status \in BlockedOrCancelled}}

\* Faulty variants of line 122: Cancelled is forgotten; nothing is skipped.
SkippedBlockedOnly(ticket) == ticket.status = "Blocked"

SkipNothing(ticket) == FALSE

\* line 122: the tickets the loop of line 121 does not skip
Skipped(ticket) == ticket.status \in BlockedOrCancelled

\* Faulty variant of lines 147-153: the task keeps the content it has.
UpdateOpStale(ticket, task) ==
    [task_id |-> task.id, content |-> task.content,
     due_date |-> ticket.due_date, priority |-> TaskPriority(ticket),
     description |-> TaskDescription(ticket)]

\* lines 147-153
UpdateOp(ticket, task) ==
    [task_id |-> task.id, content |-> TaskContent(ticket),
     due_date |-> ticket.due_date, priority |-> TaskPriority(ticket),
     description |-> TaskDescription(ticket)]

\* Faulty variant of lines 157-163: the priority mapping is not applied.
AddOpDefaultPriority(ticket, project_id) ==
    [content |-> TaskContent(ticket), project_id |-> project_id,
     due_date |-> ticket.due_date, priority |-> 4,
     description |-> TaskDescription(ticket)]


AddOp(ticket, project_id) ==
    [content |-> TaskContent(ticket), project_id |-> project_id,
     due_date |-> ticket.due_date, priority |-> TaskPriority(ticket),
     description |-> TaskDescription(ticket)]

\* lines 145-154
TasksToUpdate(tickets, ts) ==
    LET sel == SelectSeq(tickets,
                   LAMBDA t : ~Skipped(t) /\ InMap(ts, t.key))
    IN [i \in 1..Len(sel) |-> UpdateOp(sel[i], MapTask(ts, sel[i].key))]

\* Faulty variant of lines 155-163: tasks are added to an empty project
\* only.
TasksToAddWhenEmpty(tickets, ts, project_id) ==
    LET sel == SelectSeq(tickets,
                   LAMBDA t : ~Skipped(t) /\ ts = <<>>)
    IN [i \in 1..Len(sel) |-> AddOp(sel[i], project_id)]

\* lines 155-163
TasksToAdd(tickets, ts, project_id) ==
    LET sel == SelectSeq(tickets,
                   LAMBDA t : ~Skipped(t) /\ ~InMap(ts, t.key))
    IN [i \in 1..Len(sel) |-> AddOp(sel[i], project_id)]

\* Faulty variant of lines 167-168: no task is ever marked done.
ToCompleteNever(tickets, k) == FALSE

\* lines 166-168
ToComplete(tickets, k) == k \notin JiraTicketKeys(tickets)

\* Faulty variant of lines 165-168: the loop runs over the task listing
\* instead of the map.
TasksToCompleteListing(tickets, ts) ==
    LET sel == SelectSeq(ts,
                   LAMBDA t : ToComplete(tickets, SplitKey(t.content)))
    IN [i \in 1..Len(sel) |-> sel[i].id]

\* lines 165-168
TasksToComplete(tickets, ts) ==
    LET sel == SelectSeq(MapKeys(ts), LAMBDA k : ToComplete(tickets, k))
    IN [i \in 1..Len(sel) |-> MapTask(ts, sel[i]).id]

\* lines 169-170
ToDelete(tickets, k) ==
    /\ ~ToComplete(tickets, k)
    /\ k \in BlockedOrCancelledKeys(tickets)

TasksToDelete(tickets, ts) ==
    LET sel == SelectSeq(MapKeys(ts), LAMBDA k : ToDelete(tickets, k))
    IN [i \in 1..Len(sel) |-> MapTask(ts, sel[i]).id]

----------------------------------------------------------------------------
(* The two remote services.                                                *)

\* The tracker's status catalog (GET /rest/api/2/status, line 37), and the
\* names of its statuses of category "done" (line 43).
StatusCatalog ==
    {[name |-> "Open", category |-> "new"],
     [name |-> "Blocked", category |-> "indeterminate"],
     [name |-> "Cancelled", category |-> "done"],
     [name |-> "Done", category |-> "done"]}

GreenStatuses == {s.name : s \in {c \in StatusCatalog : c.category = "done"}}

\* Faulty variant of line 50: only the statuses of category "done" are
\* excluded.
ExcludedGreenOnly(green_statuses) == green_statuses

\* excluded_statuses (line 50)
ExcludedStatuses(green_statuses) == BlockedOrCancelled \cup green_statuses

\* The issues the search of lines 58-81 returns: those assigned to the user
\* whose status is not excluded, as ticket records.
OpenTickets(issues, green_statuses) ==
    SelectSeq(issues,
        LAMBDA t : t.status \notin ExcludedStatuses(green_statuses))

\* api.get_tasks(project_id=...) (line 103): the active tasks of the project
ProjectTasks(ts, project_id) ==
    SelectSeq(ts, LAMBDA t : t.project_id = project_id)

\* Faulty variant of line 91: the lookup never finds the project.
FindProjectNever(ps, name) == 0

\* line 91: the first project of that name, 0 when there is none
FindProject(ps, name) ==
    IF \E i \in DOMAIN ps : ps[i].name = name
    THEN ps[CHOOSE i \in DOMAIN ps :
                /\ ps[i].name = name
                /\ \A j \in DOMAIN ps : ps[j].name = name => i <= j].id
    ELSE 0

IsActive(id) == \E i \in DOMAIN tasks : tasks[i].id = id

\* api.update_task(task_id, content, due_date, priority, description)
UpdatedTasks(ts, op) ==
    [i \in DOMAIN ts |->
        IF ts[i].id = op.task_id
        THEN [ts[i] EXCEPT !.content = op.content,
                           !.due_date = op.due_date,
                           !.priority = op.priority,
                           !.description = op.description]
        ELSE ts[i]]

\* api.add_task(content, project_id, due_date, priority, description)
NewTask(id, op) ==
    [id |-> id, content |-> op.content, project_id |-> op.project_id,
     due_date |-> op.due_date, priority |-> op.priority,
     description |-> op.description]

\* api.close_task / api.delete_task: the task leaves the active listing
WithoutTask(ts, id) == SelectSeq(ts, LAMBDA t : t.id # id)

----------------------------------------------------------------------------
(* Inputs.                                                                 *)

\* The fields of the tracker's issue k.
IssueOf(k) ==
    IF k = KeyA
    THEN [summary |-> <<"x">>, due_date |-> None, priority |-> "Critical"]
    ELSE [summary |-> <<"y", ":", "z">>, due_date |-> "d1", priority |-> None]

Ticket(k, shape, status) ==
    [key |-> k, summary |-> shape.summary, due_date |-> shape.due_date,
     priority |-> shape.priority, status |-> status]

\* Ticket lists a caller may hand to sync_to_todoist: any status, keys
\* distinct (an issue key identifies the issue). The two issues differ in
\* every field; the priorities are varied in InitPrio.
AnyTickets ==
    {Ticket(k, IssueOf(k), st) : k \in Keys,
                                 st \in {"Open", "Blocked", "Cancelled"}}

TicketLists ==
    {<<>>} \cup {<<t>> : t \in AnyTickets}
           \cup {<<t, u>> : <<t, u>> \in
                    {p \in AnyTickets \X AnyTickets : p[1].key # p[2].key}}

\* What a task of the project may read before the first pass: a stale task
\* of a ticket, a task without ":", a task with a prefix that is no key.
TaskContents ==
    {<<"A", ":", " ", "o">>, <<"B", ":", " ", "o">>, <<"m">>,
     <<"C", ":", " ", "q">>}

RECURSIVE SeqsUpTo(_, _)
SeqsUpTo(S, n) ==
    IF n = 0 THEN {<<>>}
    ELSE LET shorter == SeqsUpTo(S, n - 1)
         IN shorter \cup {Append(s, x) : s \in shorter, x \in S}

Inbox == [id |-> 1, name |-> "Inbox"]
JiraProject == [id |-> 2, name |-> PROJECT_NAME]

OldTask(id, content, project_id) ==
    [id |-> id, content |-> content, project_id |-> project_id,
     due_date |-> None, priority |-> 4, description |-> <<>>]

\* The account before the first pass: an Inbox holding one task that reads
\* like a ticket's, and either no project of the name or the project with
\* up to MaxTasks tasks.
InitTodoist ==
    /\ closed = {}
    /\ deleted = {}
    /\ \/ /\ projects = <<Inbox>>
          /\ tasks = <<OldTask(1, <<"A", ":", " ", "o">>, Inbox.id)>>
       \/ /\ projects = <<Inbox, JiraProject>>
          /\ \E cs \in SeqsUpTo(TaskContents, MaxTasks) :
                tasks = <<OldTask(1, <<"A", ":", " ", "o">>, Inbox.id)>>
                        \o [i \in 1..Len(cs) |->
                               OldTask(i + 1, cs[i], JiraProject.id)]
    /\ nextId = Len(tasks) + 1

InitLocals ==
    /\ green = {}
    /\ jira_project = 0
    /\ existing_tasks = <<>>
    /\ tasks_to_update = <<>>
    /\ tasks_to_add = <<>>
    /\ tasks_to_complete = <<>>
    /\ tasks_to_delete = <<>>
    /\ reqs = {}
    /\ nStatus = 0
    /\ errs = {}

\* The statuses issue k takes: one issue can be blocked, the other
\* cancelled, both can be open or resolved.
JiraStatuses(k) ==
    IF k = KeyA THEN {"Open", "Blocked", "Done"}
    ELSE {"Open", "Cancelled", "Done"}

\* Issues of the tracker assigned to the user, in the order the search
\* returns them.

JiraStates ==
    LET a == {<<>>} \cup {<<Ticket(KeyA, IssueOf(KeyA), st)>> : st \in JiraStatuses(KeyA)}
        b == {<<>>} \cup {<<Ticket(KeyB, IssueOf(KeyB), st)>> : st \in JiraStatuses(KeyB)}
    IN {x \o y : x \in a, y \in b}

\* run_service at line 213, before its first pass
Init ==
    /\ jira \in JiraStates
    /\ InitTodoist
    /\ InitLocals
    /\ jira_tickets = <<>>
    /\ pc = "start"
    /\ pass = 0
    /\ prev_tasks = <<>>
    /\ changes = 0

\* sync_to_todoist called directly with a ticket list, at line 90
InitSync ==
    /\ jira = <<>>
    /\ InitTodoist
    /\ InitLocals
    /\ jira_tickets \in TicketLists
    /\ pc = "get_projects"
    /\ pass = 1
    /\ prev_tasks = <<>>
    /\ changes = 0

----------------------------------------------------------------------------
(* Steps of run_service and sync_to_todoist.                               *)

service == <<jira, changes, prev_tasks>>
todoist == <<projects, tasks, closed, deleted, nextId>>
lists == <<tasks_to_update, tasks_to_add, tasks_to_complete, tasks_to_delete>>

Failed(kind) == errs' = errs \cup {[pass |-> pass, kind |-> kind]}

\* Where run_service goes on after the except clause of lines 220-221, and
\* where sync_to_todoist returns to: line 222 and the sleep of line 223.
AfterPass == "done"

\* lines 220-221: the exception is caught and logged
\* Faulty variant of lines 220-221: the exception ends run_service.
AfterExceptionExit == "exited"
AfterException == AfterPass

\* lines 97-99 and 105-107: the except clause logs and returns
\* Faulty variant of lines 99 and 107: the handler does not return.
AfterHandlerGoesOn == "statuses"
AfterHandler == AfterPass

\* line 215 -> 49 -> 37: the status catalog is read
FetchStatuses ==
    /\ pc = "start"
    /\ nStatus' = nStatus + 1
    /\ green' = GreenStatuses
    /\ pc' = "search"
    /\ UNCHANGED <<service, todoist, lists, jira_tickets, jira_project,
                   existing_tasks, reqs, errs, pass>>

\* lines 38-40: raise_for_status, caught at line 220
FetchStatusesFails ==
    /\ pc = "start"
    /\ nStatus' = nStatus + 1
    /\ Failed("read")
    /\ pc' = AfterException
    /\ UNCHANGED <<service, todoist, lists, green, jira_tickets,
                   jira_project, existing_tasks, reqs, pass>>

\* Faulty variant of lines 58-81: the search transitions the issues it
\* returns.
SearchTicketsTransitions ==
    /\ pc = "search"
    /\ jira_tickets' = OpenTickets(jira, green)
    /\ jira' = [i \in DOMAIN jira |-> [jira[i] EXCEPT !.status = "Done"]]
    /\ pc' = "get_projects"
    /\ UNCHANGED <<changes, prev_tasks, todoist, lists, green, jira_project,
                   existing_tasks, reqs, nStatus, errs, pass>>

\* lines 58-81: the search answers; lines 216-218 print; line 219 calls
\* sync_to_todoist
SearchTickets ==
    /\ pc = "search"
    /\ jira_tickets' = OpenTickets(jira, green)
    /\ pc' = "get_projects"
    /\ UNCHANGED <<service, todoist, lists, green, jira_project,
                   existing_tasks, reqs, nStatus, errs, pass>>

\* line 67 raises (or the answer is malformed), caught at line 220
SearchTicketsFails ==
    /\ pc = "search"
    /\ Failed("read")
    /\ pc' = AfterException
    /\ UNCHANGED <<service, todoist, lists, green, jira_tickets,
                   jira_project, existing_tasks, reqs, nStatus, pass>>

\* lines 90-96
GetProjects ==
    /\ pc = "get_projects"
    /\ jira_project' = FindProject(projects, PROJECT_NAME)
    /\ pc' = IF jira_project' = 0 THEN "add_project" ELSE "get_tasks"
    /\ UNCHANGED <<service, todoist, lists, green, jira_tickets,
                   existing_tasks, reqs, nStatus, errs, pass>>

\* lines 97-99
GetProjectsFails ==
    /\ pc = "get_projects"
    /\ Failed("read")
    /\ pc' = AfterHandler
    /\ UNCHANGED <<service, todoist, lists, green, jira_tickets,
                   jira_project, existing_tasks, reqs, nStatus, pass>>

\* line 93
AddProject ==
    /\ pc = "add_project"
    /\ projects' = Append(projects,
                      [id |-> Len(projects) + 1, name |-> PROJECT_NAME])
    /\ jira_project' = Len(projects) + 1
    /\ pc' = "get_tasks"
    /\ UNCHANGED <<service, tasks, closed, deleted, nextId, lists, green,
                   jira_tickets, existing_tasks, reqs, nStatus, errs, pass>>

\* line 93 raises: lines 97-99
AddProjectFails ==
    /\ pc = "add_project"
    /\ Failed("project")
    /\ pc' = AfterHandler
    /\ UNCHANGED <<service, todoist, lists, green, jira_tickets,
                   jira_project, existing_tasks, reqs, nStatus, pass>>

\* lines 103-104
GetTasks ==
    /\ pc = "get_tasks"
    /\ existing_tasks' = ProjectTasks(tasks, jira_project)
    /\ pc' = "statuses"
    /\ UNCHANGED <<service, todoist, lists, green, jira_tickets,
                   jira_project, reqs, nStatus, errs, pass>>

\* lines 105-107
GetTasksFails ==
    /\ pc = "get_tasks"
    /\ Failed("read")
    /\ pc' = AfterHandler
    /\ UNCHANGED <<service, todoist, lists, green, jira_tickets,
                   jira_project, existing_tasks, reqs, nStatus, pass>>

\* The coroutines of one category, as asyncio.gather starts them.
Batch(cat, ops) ==
    {[cat |-> cat, i |-> i, st |-> "flight"] : i \in DOMAIN ops}

\* Line 116 reads the status catalog a second time; lines 117-170 fill the
\* four lists, lines 173-184 create the coroutines, and line 187 starts
\* the updates. Nothing is awaited in between.
Reconcile ==
    /\ pc = "statuses"
    /\ nStatus' = nStatus + 1
    /\ tasks_to_update' = TasksToUpdate(jira_tickets, existing_tasks)
    /\ tasks_to_add' = TasksToAdd(jira_tickets, existing_tasks, jira_project)
    /\ tasks_to_complete' = TasksToComplete(jira_tickets, existing_tasks)
    /\ tasks_to_delete' = TasksToDelete(jira_tickets, existing_tasks)
    /\ reqs' = Batch("update", tasks_to_update')
    /\ pc' = "update"
    /\ UNCHANGED <<service, todoist, green, jira_tickets, jira_project,
                   existing_tasks, errs, pass>>

\* line 116 raises: no handler in sync_to_todoist, so the exception leaves
\* it and is caught at line 220
StatusesFails ==
    /\ pc = "statuses"
    /\ nStatus' = nStatus + 1
    /\ Failed("read")
    /\ pc' = AfterException
    /\ UNCHANGED <<service, todoist, lists, green, jira_tickets,
                   jira_project, existing_tasks, reqs, pass>>

Categories == {"update", "add", "complete", "delete"}

OpsOf(cat) ==
    CASE cat = "update" -> tasks_to_update
      [] cat = "add" -> tasks_to_add
      [] cat = "complete" -> tasks_to_complete
      [] cat = "delete" -> tasks_to_delete

\* lines 186-208: the order of the four gathers
After(cat) ==
    CASE cat = "update" -> "add"
      [] cat = "add" -> "complete"
      [] cat = "complete" -> "delete"
      [] cat = "delete" -> AfterPass

Settle(r, st) == reqs' = (reqs \ {r}) \cup {[r EXCEPT !.st = st]}

\* Request r of a running batch succeeds at the to-do service.
Succeeds(r) ==
        /\ r.st = "flight"
        /\ LET op == OpsOf(r.cat)[r.i] IN
           \/ /\ r.cat = "update"
              /\ IsActive(op.task_id)
              /\ tasks' = UpdatedTasks(tasks, op)
              /\ UNCHANGED <<closed, deleted, nextId>>
           \/ /\ r.cat = "add"
              /\ nextId <= MaxId
              /\ tasks' = Append(tasks, NewTask(nextId, op))
              /\ nextId' = nextId + 1
              /\ UNCHANGED <<closed, deleted>>
           \/ /\ r.cat = "complete"
              /\ IsActive(op)
              /\ tasks' = WithoutTask(tasks, op)
              /\ closed' = closed \cup {op}
              /\ UNCHANGED <<deleted, nextId>>
           \/ /\ r.cat = "delete"
              /\ IsActive(op)
              /\ tasks' = WithoutTask(tasks, op)
              /\ deleted' = deleted \cup {op}
              /\ UNCHANGED <<closed, nextId>>
        /\ Settle(r, "ok")
        /\ UNCHANGED <<service, projects, lists, pc, green, jira_tickets,
                       jira_project, existing_tasks, nStatus, errs, pass>>

RequestSucceeds == \E r \in reqs : Succeeds(r)

\* A request of a running batch raises.
RequestFails ==
    \E r \in reqs :
        /\ r.st = "flight"
        /\ Settle(r, "err")
        /\ Failed("write")
        /\ UNCHANGED <<service, todoist, lists, pc, green, jira_tickets,
                       jira_project, existing_tasks, nStatus, pass>>

\* Faulty variant of lines 186-208: one try block around the four gathers,
\* so that a failed request ends the pass.
GatherReturnsAborts ==
    /\ pc \in Categories
    /\ LET batch == {r \in reqs : r.cat = pc} IN
          \/ /\ \A r \in batch : r.st = "ok"
             /\ pc' = After(pc)
          \/ /\ \E r \in batch : r.st = "err"
             /\ pc' = AfterPass
    /\ reqs' = IF pc' \in Categories
               THEN reqs \cup Batch(pc', OpsOf(pc'))
               ELSE reqs
    /\ UNCHANGED <<service, todoist, lists, green, jira_tickets,
                   jira_project, existing_tasks, nStatus, errs, pass>>

\* await asyncio.gather(*batch) is over: every request of the batch has
\* succeeded, or one has raised (gather then raises at once and leaves the
\* others running; the except clause logs). The next gather starts.
GatherReturns ==
    /\ pc \in Categories
    /\ LET batch == {r \in reqs : r.cat = pc} IN
          \/ \A r \in batch : r.st = "ok"
          \/ \E r \in batch : r.st = "err"
    /\ pc' = After(pc)
    /\ reqs' = IF pc' \in Categories
               THEN reqs \cup Batch(pc', OpsOf(pc'))
               ELSE reqs
    /\ UNCHANGED <<service, todoist, lists, green, jira_tickets,
                   jira_project, existing_tasks, nStatus, errs, pass>>

Settled == \A r \in reqs : r.st # "flight"

\* A call's local variables are bound afresh.
FreshLocals ==
    /\ green' = {}
    /\ jira_project' = 0
    /\ existing_tasks' = <<>>
    /\ tasks_to_update' = <<>>
    /\ tasks_to_add' = <<>>
    /\ tasks_to_complete' = <<>>
    /\ tasks_to_delete' = <<>>
    /\ reqs' = {}
    /\ nStatus' = 0

\* line 223 is over and the loop is back at line 213; the sleep of 300
\* seconds outlasts every request still running.
NextPass ==
    /\ pc = "done"
    /\ Settled
    /\ pc' = "start"
    /\ jira_tickets' = <<>>
    /\ FreshLocals
    /\ errs' = {}
    /\ UNCHANGED <<service, todoist, pass>>

\* Somebody edits an issue in the tracker between two passes.
TrackerEdit ==
    /\ pc = "done"
    /\ changes < MaxChanges
    /\ \E i \in DOMAIN jira : \E st \in JiraStatuses(jira[i].key) \ {jira[i].status} :
          jira' = [jira EXCEPT ![i].status = st]
    /\ changes' = changes + 1
    /\ UNCHANGED <<todoist, lists, pc, green, jira_tickets, jira_project,
                   existing_tasks, reqs, nStatus, errs, pass, prev_tasks>>

\* The caller calls sync_to_todoist a second time with the same ticket list.
CallAgain ==
    /\ pc = "done"
    /\ Settled
    /\ pass = 1
    /\ pass' = pass + 1
    /\ pc' = "get_projects"
    /\ prev_tasks' = existing_tasks
    /\ FreshLocals
    /\ UNCHANGED <<jira, changes, todoist, jira_tickets, errs>>

SyncStep ==
    \/ GetProjects
    \/ GetProjectsFails
    \/ AddProject
    \/ AddProjectFails
    \/ GetTasks
    \/ GetTasksFails
    \/ Reconcile
    \/ StatusesFails
    \/ RequestSucceeds
    \/ RequestFails
    \/ GatherReturns

Next ==
    \/ FetchStatuses
    \/ FetchStatusesFails
    \/ SearchTickets
    \/ SearchTicketsFails
    \/ SyncStep
    \/ NextPass
    \/ TrackerEdit

Spec == Init /\ [][Next]_vars

NextSync == SyncStep \/ CallAgain

SpecSync == InitSync /\ [][NextSync]_vars

----------------------------------------------------------------------------
(* Properties of one reconciliation (lines 101-170), checked on            *)
(* sync_to_todoist called with any ticket list (SpecSync).                 *)

\* The four lists of the current call have been filled.
Reconciled ==
    \/ pc \in Categories
    \/ /\ pc = "done"
       /\ ~\E e \in errs : e.pass = pass /\ e.kind \in {"read", "project"}

UpdateIds == {tasks_to_update[i].task_id : i \in DOMAIN tasks_to_update}
CompleteIds == {tasks_to_complete[i] : i \in DOMAIN tasks_to_complete}
DeleteIds == {tasks_to_delete[i] : i \in DOMAIN tasks_to_delete}

\* The operations of a list whose content names key k.
UpdatesFor(k) ==
    {i \in DOMAIN tasks_to_update : SplitKey(tasks_to_update[i].content) = k}
AddsFor(k) ==
    {i \in DOMAIN tasks_to_add : SplitKey(tasks_to_add[i].content) = k}

TicketKeys == {jira_tickets[i].key : i \in DOMAIN jira_tickets}

IsOpen(t) == t.status # "Blocked" /\ t.status # "Cancelled"

\* The tasks of the listing whose prefix is k, and the one the map keeps:
\* the last of them.
WithPrefix(k) ==
    {i \in DOMAIN existing_tasks : SplitKey(existing_tasks[i].content) = k}
Associated(i) ==
    \A j \in WithPrefix(SplitKey(existing_tasks[i].content)) : j <= i

\* The priority table of the specification.
TablePriority(p) ==
    IF p \in {"Blocker", "Critical"} THEN 1
    ELSE IF p = "Major" THEN 2
    ELSE IF p = "Minor" THEN 3
    ELSE 4

\* C1: an existing task whose parsed prefix is not the key of a ticket of
\* the list gets no update, no complete and no delete operation.
C1_UnmatchedTaskUntouched ==
    Reconciled =>
        \A i \in DOMAIN existing_tasks :
            SplitKey(existing_tasks[i].content) \notin TicketKeys
            => existing_tasks[i].id \notin
                   (UpdateIds \cup CompleteIds \cup DeleteIds)

\* The first call ran to its end and none of its remote calls failed.
FirstCallClean == pass = 2 /\ ~\E e \in errs : e.pass = 1

UpdatesOnly ==
    /\ tasks_to_add = <<>>
    /\ tasks_to_complete = <<>>
    /\ tasks_to_delete = <<>>

DistinctPrefixes(ts) ==
    \A i, j \in DOMAIN ts :
        SplitKey(ts[i].content) = SplitKey(ts[j].content) => i = j

\* C2 as stated: after a first call whose operations were all applied, a
\* second call on the same ticket list emits update operations only, for
\* every ticket list and every initial set of tasks.
C2_SecondPassUpdatesOnly ==
    (FirstCallClean /\ Reconciled) => UpdatesOnly

\* C2 as amended: the same, when no two tasks of the project shared a
\* parsed prefix before the first call.
C2_SecondPassUpdatesOnlyDistinct ==
    (FirstCallClean /\ Reconciled /\ DistinctPrefixes(prev_tasks))
        => UpdatesOnly

\* C2 witness: a second call after a clean first one that had found tasks
\* with distinct prefixes, closed one of them and added another.
C2_Witness ==
    /\ FirstCallClean
    /\ Reconciled
    /\ DistinctPrefixes(prev_tasks)
    /\ prev_tasks # <<>>
    /\ closed # {}
    /\ \E i \in DOMAIN existing_tasks :
          \A j \in DOMAIN prev_tasks : prev_tasks[j].id # existing_tasks[i].id
    /\ tasks_to_update # <<>>

\* C3: an open ticket whose key is no key of the existing-task map gets
\* exactly one add operation, with content "<key>: <summary>", the mapped
\* priority and the Jira project as target, and no update operation.
C3_OneAddForNewTicket ==
    Reconciled =>
        \A i \in DOMAIN jira_tickets :
            LET t == jira_tickets[i] IN
            (IsOpen(t) /\ WithPrefix(t.key) = {})
            => /\ Cardinality(AddsFor(t.key)) = 1
               /\ \A n \in AddsFor(t.key) :
                     /\ tasks_to_add[n].content
                            = t.key \o <<":", " ">> \o t.summary
                     /\ tasks_to_add[n].priority = TablePriority(t.priority)
                     /\ \E p \in DOMAIN projects :
                           /\ projects[p].id = tasks_to_add[n].project_id
                           /\ projects[p].name = "Jira Tickets"
               /\ UpdatesFor(t.key) = {}

\* C3 witness: an open ticket of priority Critical without a task, beside
\* existing tasks of other prefixes, has its add operation.
C3_Witness ==
    /\ Reconciled
    /\ existing_tasks # <<>>
    /\ \E i \in DOMAIN jira_tickets :
          /\ IsOpen(jira_tickets[i])
          /\ jira_tickets[i].priority = "Critical"
          /\ WithPrefix(jira_tickets[i].key) = {}
          /\ AddsFor(jira_tickets[i].key) # {}

\* C4: an open ticket whose key is a key of the existing-task map gets
\* exactly one update operation, carrying the id of the task associated
\* with the key, and no add operation.
C4_OneUpdateForKnownTicket ==
    Reconciled =>
        \A i \in DOMAIN jira_tickets :
            LET t == jira_tickets[i] IN
            (IsOpen(t) /\ WithPrefix(t.key) # {})
            => /\ Cardinality(UpdatesFor(t.key)) = 1
               /\ \A n \in UpdatesFor(t.key) :
                     \E j \in WithPrefix(t.key) :
                        /\ Associated(j)
                        /\ tasks_to_update[n].task_id = existing_tasks[j].id
               /\ AddsFor(t.key) = {}

\* C4 witness: an open ticket with two tasks of its prefix is updated.
C4_Witness ==
    /\ Reconciled
    /\ \E i \in DOMAIN jira_tickets :
          /\ IsOpen(jira_tickets[i])
          /\ Cardinality(WithPrefix(jira_tickets[i].key)) = 2
          /\ UpdatesFor(jira_tickets[i].key) # {}

\* C5: a tracked task whose key is the key of a Blocked or Cancelled ticket
\* of the list gets a delete operation, and the key gets no update.
C5_DeleteForBlocked ==
    Reconciled =>
        \A j \in DOMAIN existing_tasks :
            LET k == SplitKey(existing_tasks[j].content) IN
            (Associated(j) /\ \E i \in DOMAIN jira_tickets :
                                 /\ jira_tickets[i].key = k
                                 /\ ~IsOpen(jira_tickets[i]))
            => /\ existing_tasks[j].id \in DeleteIds
               /\ UpdatesFor(k) = {}

\* C5 witness: the task of a Cancelled ticket is in the delete list.
C5_Witness ==
    /\ Reconciled
    /\ \E j \in DOMAIN existing_tasks : \E i \in DOMAIN jira_tickets :
          /\ jira_tickets[i].key = SplitKey(existing_tasks[j].content)
          /\ jira_tickets[i].status = "Cancelled"
          /\ existing_tasks[j].id \in DeleteIds

\* C6: a Blocked or Cancelled ticket gets no add and no update operation,
\* with or without a task of its key.
C6_NoAddUpdateForBlocked ==
    Reconciled =>
        \A i \in DOMAIN jira_tickets :
            ~IsOpen(jira_tickets[i])
            => /\ AddsFor(jira_tickets[i].key) = {}
               /\ UpdatesFor(jira_tickets[i].key) = {}

\* C6 witness: a Cancelled ticket without a task and a Blocked ticket with
\* one have been reconciled, and something else was added or updated.
C6_Witness ==
    /\ Reconciled
    /\ \E i, j \in DOMAIN jira_tickets :
          /\ jira_tickets[i].status = "Cancelled"
          /\ WithPrefix(jira_tickets[i].key) = {}
          /\ jira_tickets[j].status = "Blocked"
          /\ WithPrefix(jira_tickets[j].key) # {}

\* C7: a task of the existing-task map whose key is the key of no ticket
\* of the list gets a complete operation, and no delete or update.
C7_CompleteForVanished ==
    Reconciled =>
        \A j \in DOMAIN existing_tasks :
            (Associated(j)
             /\ SplitKey(existing_tasks[j].content) \notin TicketKeys)
            => /\ existing_tasks[j].id \in CompleteIds
               /\ existing_tasks[j].id \notin DeleteIds
               /\ existing_tasks[j].id \notin UpdateIds

\* C7 witness: a stale task "B: o" with no ticket B is in the complete
\* list while another ticket is Blocked and has a task to delete.
C7_Witness ==
    /\ Reconciled
    /\ KeyB \notin TicketKeys
    /\ \E j \in DOMAIN existing_tasks :
          /\ SplitKey(existing_tasks[j].content) = KeyB
          /\ existing_tasks[j].id \in CompleteIds
    /\ tasks_to_delete # <<>>

\* C8: no task id is in more than one of the update, complete and delete
\* lists, and no ticket key has both an add and an update operation.
C8_ListsDisjoint ==
    Reconciled =>
        /\ UpdateIds \cap CompleteIds = {}
        /\ UpdateIds \cap DeleteIds = {}
        /\ CompleteIds \cap DeleteIds = {}
        /\ \A i \in DOMAIN jira_tickets :
              AddsFor(jira_tickets[i].key) = {}
              \/ UpdatesFor(jira_tickets[i].key) = {}

\* C8 witness: an update, a complete and a delete are emitted together.
C8_Witness ==
    /\ Reconciled
    /\ tasks_to_update # <<>>
    /\ tasks_to_complete # <<>>
    /\ tasks_to_delete # <<>>

----------------------------------------------------------------------------
(* Properties of the service loop (lines 210-223).                         *)

\* Every step of the program and every answer of a remote service; the
\* edits of the tracker's users are not among them.
ProgramStep ==
    \/ FetchStatuses
    \/ FetchStatusesFails
    \/ SearchTickets
    \/ SearchTicketsFails
    \/ SyncStep
    \/ NextPass

\* run_service at line 213 on one of two accounts: without the project,
\* or with the project holding a stale task of ticket A and a task
\* without ":".
InitLive ==
    /\ jira \in JiraStates
    /\ closed = {}
    /\ deleted = {}
    /\ \/ /\ projects = <<Inbox>>
          /\ tasks = <<OldTask(1, <<"A", ":", " ", "o">>, Inbox.id)>>
       \/ /\ projects = <<Inbox, JiraProject>>
          /\ tasks = <<OldTask(1, <<"A", ":", " ", "o">>, Inbox.id),
                       OldTask(2, <<"A", ":", " ", "o">>, JiraProject.id),
                       OldTask(3, <<"m">>, JiraProject.id)>>
    /\ nextId = Len(tasks) + 1
    /\ InitLocals
    /\ jira_tickets = <<>>
    /\ pc = "start"
    /\ pass = 0
    /\ prev_tasks = <<>>
    /\ changes = 0

\* The event loop runs the coroutine whenever it can go on, and every
\* remote call returns or raises.
FairSpec == InitLive /\ [][Next]_vars /\ WF_vars(ProgramStep)

\* A pass starts: line 215 issues its first request.
PassStarts == FetchStatuses \/ FetchStatusesFails

\* C9: whatever fails inside a pass, the loop goes on: passes are started
\* again and again, and every pass that is over is followed by another.
C9_LoopNeverEnds ==
    /\ []<><<PassStarts>>_vars
    /\ [](pc = "done" => <>(pc = "start"))

\* C9 witness: the second read of the status catalog (line 116) has raised
\* out of sync_to_todoist and the loop is at its sleep.
C9_Witness ==
    /\ pc = "done"
    /\ nStatus = 2
    /\ \E e \in errs : e.kind = "read"

ReadFailed == \E e \in errs : e.pass = pass /\ e.kind = "read"

\* C10: once a read of the pass has failed, the pass issues no task
\* create, update, complete or delete request.
C10_ReadFailureAbortsPass == ReadFailed => reqs = {}

\* C10 witness: the task listing has failed in a pass that had tickets to
\* add, and the pass is over.
C10_Witness ==
    /\ ReadFailed
    /\ pc = "done"
    /\ nStatus = 1
    /\ jira_project # 0
    /\ jira_tickets # <<>>
    /\ existing_tasks = <<>>

----------------------------------------------------------------------------
(* Properties of the passes of run_service (Spec).                         *)

NamedProjects == {i \in DOMAIN projects : projects[i].name = "Jira Tickets"}

\* C11: at most one project named "Jira Tickets" exists, whatever passes
\* have run, and every add operation of a pass targets that project.
C11_OneJiraProject ==
    /\ Cardinality(NamedProjects) <= 1
    /\ Reconciled =>
          \A n \in DOMAIN tasks_to_add :
              \E i \in NamedProjects :
                  projects[i].id = tasks_to_add[n].project_id

\* C11 witness: a pass adds a task to the project while the project holds
\* a task that an earlier pass of the program wrote.
C11_Witness ==
    /\ Reconciled
    /\ tasks_to_add # <<>>
    /\ Cardinality(NamedProjects) = 1
    /\ \E i \in DOMAIN existing_tasks : existing_tasks[i].description # <<>>

----------------------------------------------------------------------------
(* The priority mapping, over every priority a ticket may carry.           *)

\* The priority names of the table of lines 134-140, a name the table
\* does not hold, and an absent priority.
Priorities == {"Blocker", "Critical", "Major", "Minor", "Trivial",
               "Highest", None}

PrioTicket(k, p) ==
    [key |-> k, summary |-> <<"x">>, due_date |-> None, priority |-> p,
     status |-> "Open"]

\* sync_to_todoist called with open tickets of any priority, against an
\* account without the project or with the project holding a task of A.
InitPrio ==
    /\ jira = <<>>
    /\ closed = {}
    /\ deleted = {}
    /\ \/ /\ projects = <<Inbox>>
          /\ tasks = <<OldTask(1, <<"A", ":", " ", "o">>, Inbox.id)>>
       \/ /\ projects = <<Inbox, JiraProject>>
          /\ tasks = <<OldTask(1, <<"A", ":", " ", "o">>, Inbox.id),
                       OldTask(2, <<"A", ":", " ", "o">>, JiraProject.id)>>
    /\ nextId = Len(tasks) + 1
    /\ InitLocals
    /\ \E p \in Priorities, q \in Priorities :
          jira_tickets \in {<<PrioTicket(KeyA, p)>>,
                            <<PrioTicket(KeyA, p), PrioTicket(KeyB, q)>>}
    /\ pc = "get_projects"
    /\ pass = 1
    /\ prev_tasks = <<>>
    /\ changes = 0

SpecPrio == InitPrio /\ [][NextSync]_vars

\* The operations of the pass that carry ticket t.
OpsFor(t) ==
    {tasks_to_update[n] : n \in UpdatesFor(t.key)}
    \cup {tasks_to_add[n] : n \in AddsFor(t.key)}

\* C12: the priority of every operation is the one the table gives for
\* the ticket's priority: Blocker and Critical 1, Major 2, Minor 3,
\* Trivial 4, any other name and an absent priority 4; every ticket gets
\* a priority, always the same one.
C12_PriorityTable ==
    Reconciled =>
        \A n \in DOMAIN jira_tickets :
            /\ OpsFor(jira_tickets[n]) # {}
            /\ \A op \in OpsFor(jira_tickets[n]) :
                  /\ op.priority = TablePriority(jira_tickets[n].priority)
                  /\ op.priority \in 1..4

\* C12 witness: a pass carries a Major ticket as priority 2 and a ticket
\* without priority as priority 4.
C12_Witness ==
    /\ Reconciled
    /\ \E n, m \in DOMAIN jira_tickets :
          /\ jira_tickets[n].priority = "Major"
          /\ jira_tickets[m].priority = None
          /\ \E op \in OpsFor(jira_tickets[n]) : op.priority = 2
          /\ \E op \in OpsFor(jira_tickets[m]) : op.priority = 4

\* C13: no step of a pass (the reads, the reconciliation, the requests and
\* their failures, the handlers) changes the issues of the tracker.
C13_TrackerOnlyRead == [][ProgramStep => jira' = jira]_vars

\* C13 witness: a pass over a tracker holding issues is over; one of its
\* requests has changed the to-do service and one has failed.
C13_Witness ==
    /\ pc = "done"
    /\ Reconciled
    /\ jira # <<>>
    /\ \E r \in reqs : r.st = "ok"
    /\ \E r \in reqs : r.st = "err"

\* The place of a category in the order of lines 186-208.
Rank(cat) ==
    CASE cat = "update" -> 1
      [] cat = "add" -> 2
      [] cat = "complete" -> 3
      [] cat = "delete" -> 4

\* C14: no request of a later category has been started while a request
\* of an earlier category is still in flight, also in a pass in which a
\* request fails.
C14_CategoriesSequential ==
    \A r \in reqs : \A s \in reqs :
        Rank(r.cat) < Rank(s.cat) => r.st # "flight"

\* Every operation of category cat has been issued.
Issued(cat) ==
    \A i \in DOMAIN OpsOf(cat) : \E r \in reqs : r.cat = cat /\ r.i = i

\* A request that is in flight stays so until it succeeds or raises itself.
RunsToOwnOutcome ==
    \A r \in reqs :
        r.st = "flight" =>
            \/ r \in reqs'
            \/ /\ \E st \in {"ok", "err"} : [r EXCEPT !.st = st] \in reqs'
               /\ RequestSucceeds \/ RequestFails

\* C15: a failed request takes nothing with it: the other requests of its
\* batch are issued and run until they succeed or raise themselves, and
\* the batch of every later category is issued in the same pass.
C15_WriteFailuresIsolated ==
    /\ [](Reconciled =>
            /\ \A r \in reqs : Issued(r.cat)
            /\ \A cat \in Categories :
                  (pc = "done" \/ Rank(cat) <= Rank(pc)) => Issued(cat))
    /\ [][RunsToOwnOutcome]_vars

\* C15 witness: a pass is over in which a request has failed, another
\* request of the same batch has succeeded, and so has a request of a
\* later category.
C15_Witness ==
    /\ pc = "done"
    /\ Reconciled
    /\ \E r \in reqs : \E s \in reqs : \E t \in reqs :
          /\ r.st = "err"
          /\ s.cat = r.cat /\ s.i # r.i /\ s.st = "ok"
          /\ Rank(r.cat) < Rank(t.cat) /\ t.st = "ok"

----------------------------------------------------------------------------
(* run_service when the remote services answer in the end.                 *)

\* The add request for the ticket of key k succeeds.
AddSucceeds(k) ==
    \E r \in reqs :
        /\ r.cat = "add"
        /\ SplitKey(tasks_to_add[r.i].content) = k
        /\ Succeeds(r)

\* The event loop runs the coroutine whenever it can go on; a read that is
\* tried again and again succeeds in the end, and so does the add request
\* of a ticket.
FairAnswersSpec ==
    /\ InitLive
    /\ [][Next]_vars
    /\ WF_vars(ProgramStep)
    /\ SF_vars(FetchStatuses)
    /\ SF_vars(SearchTickets)
    /\ SF_vars(GetProjects)
    /\ SF_vars(AddProject)
    /\ SF_vars(GetTasks)
    /\ SF_vars(Reconcile)
    /\ \A k \in Keys : SF_vars(AddSucceeds(k))

\* The tracker holds an open issue of key k.
OpenInJira(k) ==
    \E i \in DOMAIN jira : jira[i].key = k /\ jira[i].status = "Open"

\* The project holds an active task whose prefix is k.
HasTask(k) ==
    \E i \in DOMAIN tasks :
        /\ SplitKey(tasks[i].content) = k
        /\ \E j \in NamedProjects : projects[j].id = tasks[i].project_id

\* No operation of the pass has two requests.
IssuedOnce ==
    \A r \in reqs : \A s \in reqs : (r.cat = s.cat /\ r.i = s.i) => r = s

\* The pass adds a task for every ticket of its list that is not skipped
\* and has no task in its listing.
AddsAgain ==
    Reconciled =>
        \A n \in DOMAIN jira_tickets :
            (IsOpen(jira_tickets[n]) /\ WithPrefix(jira_tickets[n].key) = {})
            => Cardinality(AddsFor(jira_tickets[n].key)) = 1

\* A request that has raised is not issued again in its pass, and has
\* changed nothing at the to-do service.
NoRetry ==
    /\ \A r \in reqs : r.st = "err" => (r \in reqs' \/ NextPass)
    /\ RequestFails => UNCHANGED todoist

\* C16: an operation of a pass is issued at most once, also when it fails;
\* a failed add leaves nothing behind; every pass emits an add for every
\* open ticket of its list without a task; and when the remote calls
\* succeed in the end, a ticket that is open gets a task unless it stops
\* being open.
C16_NoRetryButEventuallyAdded ==
    /\ [](IssuedOnce /\ AddsAgain)
    /\ [][NoRetry]_vars
    /\ \A k \in Keys : OpenInJira(k) ~> (HasTask(k) \/ ~OpenInJira(k))

\* C16 witness: a pass is over whose add for an open ticket has failed,
\* and the project holds no task of the ticket.
C16_Witness ==
    /\ pc = "done"
    /\ \E r \in reqs :
          /\ r.cat = "add"
          /\ r.st = "err"
          /\ LET k == SplitKey(tasks_to_add[r.i].content) IN
                OpenInJira(k) /\ ~HasTask(k)

----------------------------------------------------------------------------
(* Further properties of the passes of run_service (Spec).                 *)

\* C17: between the start of a pass and its end the status catalog is
\* requested at most once.
C17_StatusCatalogOnce == nStatus <= 1

\* The issue of the tracker that task i of the listing is associated with
\* is Blocked or Cancelled.
TicketBlockedOrCancelled(i) ==
    \E j \in DOMAIN jira :
        /\ jira[j].key = SplitKey(existing_tasks[i].content)
        /\ jira[j].status \in {"Blocked", "Cancelled"}

\* C18: in a pass of run_service the delete list is empty and nothing is
\* ever deleted; the task of an issue that is Blocked or Cancelled in the
\* tracker is on the complete list, not on the delete list.
C18_BlockedIsCompleted ==
    /\ tasks_to_delete = <<>>
    /\ deleted = {}
    /\ \A r \in reqs : r.cat # "delete"
    /\ pc \in Categories =>
          \A i \in DOMAIN existing_tasks :
              (Associated(i) /\ TicketBlockedOrCancelled(i))
              => /\ existing_tasks[i].id \in CompleteIds
                 /\ existing_tasks[i].id \notin DeleteIds

\* C18 witness: the task of a Blocked issue and the task of a Cancelled
\* issue have been closed by a pass that deleted nothing.
C18_Witness ==
    /\ pc = "done"
    /\ tasks_to_delete = <<>>
    /\ \E i \in DOMAIN existing_tasks : \E j \in DOMAIN existing_tasks :
          /\ TicketBlockedOrCancelled(i)
          /\ TicketBlockedOrCancelled(j)
          /\ SplitKey(existing_tasks[i].content) = KeyA
          /\ SplitKey(existing_tasks[j].content) = KeyB
          /\ {existing_tasks[i].id, existing_tasks[j].id} \subseteq closed

\* Every remote call of the pass that is over has succeeded.
CleanPass ==
    /\ pc = "done"
    /\ Reconciled
    /\ errs = {}
    /\ \A r \in reqs : r.st = "ok"

\* The active tasks of the project.
Mirror == ProjectTasks(tasks, jira_project)

\* "<key>: <summary>"
MirrorContent(t) == t.key \o <<":", " ">> \o t.summary

\* C19: after a pass in which every remote call has succeeded and whose
\* task listing held no two tasks of the same prefix, the project holds
\* exactly one active task per ticket of the list, reading
\* "<key>: <summary>", and no other active task.
C19_MirrorAfterCleanPass ==
    (CleanPass /\ DistinctPrefixes(existing_tasks)) =>
        /\ \A n \in DOMAIN jira_tickets :
              Cardinality({i \in DOMAIN Mirror :
                  Mirror[i].content = MirrorContent(jira_tickets[n])}) = 1
        /\ \A i \in DOMAIN Mirror :
              \E n \in DOMAIN jira_tickets :
                  Mirror[i].content = MirrorContent(jira_tickets[n])
        /\ Len(Mirror) = Len(jira_tickets)

\* C19 witness: a clean pass that has updated a task, added one and
\* closed one.
C19_Witness ==
    /\ CleanPass
    /\ DistinctPrefixes(existing_tasks)
    /\ \A cat \in {"update", "add", "complete"} : \E r \in reqs : r.cat = cat

----------------------------------------------------------------------------
(* A further property of one reconciliation (SpecSync).                    *)

\* The tasks of the listing that an update, complete or delete operation
\* of the pass names.
Operated ==
    {i \in DOMAIN existing_tasks :
        existing_tasks[i].id \in UpdateIds \cup CompleteIds \cup DeleteIds}

\* C20: of the tasks of the listing that share a prefix only the last one
\* is associated with the key: no earlier one gets an update, complete or
\* delete operation, and the pass operates on at most one task per key.
C20_LastOfPrefixOnly ==
    Reconciled =>
        /\ \A i \in Operated : Associated(i)
        /\ \A i \in Operated : \A j \in Operated :
              SplitKey(existing_tasks[i].content)
                  = SplitKey(existing_tasks[j].content) => i = j

\* C20 witness: the listing holds two tasks of one prefix, and the pass
\* operates on the later one.
C20_Witness ==
    /\ Reconciled
    /\ \E i \in DOMAIN existing_tasks : \E j \in Operated :
          /\ i < j
          /\ SplitKey(existing_tasks[i].content)
                 = SplitKey(existing_tasks[j].content)

====
